---- MODULE Spec2Model ----
(***************************************************************************)
(* FrozenIndexSet (src/src/index_set.rs): an append-only wrapper around    *)
(* indexmap::IndexSet whose shared-access operations are guarded by the    *)
(* `in_use` reentrancy flag.                                               *)
(*                                                                         *)
(* The model is one call stack (the type is !Sync).  Every shared-access   *)
(* operation is the three steps of its code: the entry check and flag set, *)
(* the unsafe block that touches the set, and the flag clear with the      *)
(* return.  While a block that hashes, compares, or clones elements is     *)
(* running, the element type's callbacks may call back into any container  *)
(* or panic.  A panic unwinds the whole stack; nothing in the source       *)
(* clears a flag while unwinding.                                          *)
(*                                                                         *)
(* Elements are stable-deref handles (Box-like): a key that Hash/Eq look   *)
(* at, and the heap address of the target.  References handed out are      *)
(* addresses.  Indices are 0-based as in the source.                       *)
(***************************************************************************)
EXTENDS Integers, Sequences, FiniteSets, TLC

\* ---------------------------------------------------------------- bounds
\* Number of threads in the executions that share a container.
NumThreads == 2
\* Number of distinct element keys the callers insert or look up.
MaxKey == 2
\* Number of container slots (containers that can exist at once).
NumContainers == 2
\* Call-stack depth: 1 = top-level call, 2 = one call from inside a callback.
MaxDepth == 2

Keys == 1..MaxKey
Containers == 1..NumContainers
Threads == 1..NumThreads

VARIABLES
    alive,      \* the set of containers that have been constructed
    set,        \* set[c]: the IndexSet's entries in order, a sequence of handles
    cap,        \* cap[c]: capacity of the backing storage of set[c]
    in_use,     \* in_use[c]: the reentrancy flag
    stack,      \* the call stack, a sequence of frames, innermost last
    unwinding,  \* a panic is propagating
    loans,      \* loans[c]: the references insert/insert_full have returned
    data,       \* element contents the caller holds as a sequence: serialize's
                \* output, or input for from_iter / deserialize
    owned,      \* a raw IndexSet the caller owns (from into_set, for From)
    threads     \* threads[t]: the call thread t is making, for the executions
                \* in which a container is shared between threads

\* The state outside the containers and the call stack.
ext == <<data, owned, threads>>

vars == <<alive, set, cap, in_use, stack, unwinding, loans, data, owned, threads>>

\* ------------------------------------------------------------ references
Null == <<"null", 0>>
\* Option::None of an index
NoIndex == -1

\* The address of the handle at index i of container c's backing storage when
\* that storage has capacity n: growing the storage moves every handle.
SlotAddr(c, n, i) == <<"slot", c, n, i>>

\* Mutant: the reference is to the handle where it is stored (a &T).
DerefHandle(h, slot) == slot

\* &**x for the handle h stored at address slot: the address of h's target,
\* which is fixed for the handle's life wherever the handle is stored.
Deref(h, slot) == <<"heap", h.addr>>

\* ------------------------------------------------------ indexmap::IndexSet
\* get_full(k).map(|(i, _)| i)
SetIndexOf(s, k) ==
    IF \E i \in 1..Len(s) : s[i].key = k
      THEN (CHOOSE i \in 1..Len(s) : s[i].key = k) - 1
      ELSE NoIndex

\* Mutant: an equal stored element is removed and the value pushed at the end.
SetInsertFullMoveToEnd(s, v) ==
    LET i == SetIndexOf(s, v.key)
    IN  IF i # NoIndex
          THEN [set |-> Append(SubSeq(s, 1, i) \o SubSeq(s, i + 2, Len(s)), v),
                index |-> Len(s) - 1, vacant |-> FALSE]
          ELSE [set |-> Append(s, v), index |-> Len(s), vacant |-> TRUE]

\* Mutant: the value takes the place of an equal stored element.
SetInsertFullReplace(s, v) ==
    LET i == SetIndexOf(s, v.key)
    IN  IF i # NoIndex
          THEN [set |-> [s EXCEPT ![i + 1] = v], index |-> i, vacant |-> FALSE]
          ELSE [set |-> Append(s, v), index |-> Len(s), vacant |-> TRUE]

\* Mutant: a new element is put in front of the others.
SetInsertFullFront(s, v) ==
    IF SetIndexOf(s, v.key) # NoIndex
      THEN [set |-> s, index |-> SetIndexOf(s, v.key), vacant |-> FALSE]
      ELSE [set |-> <<v>> \o s, index |-> 0, vacant |-> TRUE]

\* insert_full(value) -> (index, was_vacant); an equal stored element is kept
\* and the new value dropped.
SetInsertFull(s, v) ==
    IF SetIndexOf(s, v.key) # NoIndex
      THEN [set |-> s, index |-> SetIndexOf(s, v.key), vacant |-> FALSE]
      ELSE [set |-> Append(s, v), index |-> Len(s), vacant |-> TRUE]

\* Mutant: the last index is taken to be out of range.
SetHasIndexShort(s, i) == i >= 0 /\ i + 1 < Len(s)

\* get_index(i).is_some()
SetHasIndex(s, i) == i >= 0 /\ i < Len(s)

\* Vec growth when a push finds the storage full.
Grow(n) == IF n = 0 THEN 1 ELSE 2 * n

\* Mutant: the sets are compared as sequences, position by position.
SetEqOrdered(s, o) == [i \in 1..Len(s) |-> s[i].key] = [i \in 1..Len(o) |-> o[i].key]

\* PartialEq of IndexSet: len() == other.len() && is_subset(other).
SetEq(s, o) ==
    /\ Len(s) = Len(o)
    /\ \A i \in 1..Len(s) : SetIndexOf(o, s[i].key) # NoIndex

\* Serialize of IndexSet: collect_seq over the elements in order; an element
\* is written as its content.
SetSerialize(s) == [i \in 1..Len(s) |-> s[i].key]

\* The smallest address the allocator has free.
Fresh(live) ==
    CHOOSE a \in 1..(Cardinality(live) + 1) :
        a \notin live /\ \A b \in 1..(a - 1) : b \in live

\* Mutant: the clone is filled in reverse order.
RECURSIVE SetCloneReversed(_, _)
SetCloneReversed(s, live) ==
    IF s = <<>> THEN <<>>
    ELSE LET a == Fresh(live)
         IN  Append(SetCloneReversed(Tail(s), live \cup {a}),
                    [key |-> Head(s).key, addr |-> a])

\* IndexSet::clone: each handle is cloned in order into a new allocation.
RECURSIVE SetClone(_, _)
SetClone(s, live) ==
    IF s = <<>> THEN <<>>
    ELSE LET a == Fresh(live)
         IN  <<[key |-> Head(s).key, addr |-> a]>> \o SetClone(Tail(s), live \cup {a})

\* IndexSet's FromIterator and its Deserialize visitor: the elements are
\* inserted one by one in the order given, each a new allocation; an element
\* equal to an earlier one is dropped at once, and its allocation freed.
RECURSIVE SetExtend(_, _, _)
SetExtend(acc, seq, live) ==
    IF seq = <<>> THEN acc
    ELSE LET a == Fresh(live)
             r == SetInsertFull(acc, [key |-> Head(seq), addr |-> a])
         IN  SetExtend(r.set, Tail(seq), IF r.vacant THEN live \cup {a} ELSE live)

\* iter.into_iter().collect() into an IndexSet.
SetCollect(seq, live) == SetExtend(<<>>, seq, live)

\* Mutant: the deserialized set holds the elements in reverse order.
SetDeserializeReversed(seq, live) ==
    LET s == SetExtend(<<>>, seq, live)
    IN  [i \in 1..Len(s) |-> s[Len(s) + 1 - i]]

\* IndexSet::deserialize: the sequence is visited in order and each element
\* inserted.
SetDeserialize(seq, live) == SetExtend(<<>>, seq, live)

\* Mutant: the container starts with its flag set.
FromInUse(s) == [set |-> s, in_use |-> TRUE]

\* From<IndexSet>: the set is wrapped as it is, the flag starts false.
From(s) == [set |-> s, in_use |-> FALSE]

\* Mutant: as_mut hands out a copy, the container's set stays as it was.
SetShiftRemoveDetached(s, k) == s

\* What the holder of as_mut's &mut IndexSet does with it: shift_remove
\* drops the element equal to k and closes the gap.
SetShiftRemove(s, k) == SelectSeq(s, LAMBDA e : e.key # k)

\* swap_remove drops the element equal to k; the last element takes its
\* place.
SetSwapRemove(s, k) ==
    LET i == SetIndexOf(s, k)
        n == Len(s)
    IN  IF i = NoIndex THEN s
        ELSE [j \in 1..(n - 1) |-> IF j = i + 1 THEN s[n] ELSE s[j]]

\* ------------------------------------------------------------------ frames
InsertOps == {"insert", "insert_full"}
GetOps == {"get", "get_full"}
\* Operations whose unsafe block runs element callbacks (Hash, Eq, Clone,
\* Serialize).
CallbackOps == InsertOps \cup GetOps \cup {"eq", "clone", "serialize"}
Ops == CallbackOps \cup {"get_index", "index"}

\* What a call hands back: kind says which of idx and ref the caller receives;
\* val is eq's answer, and for the inserts the local _was_vacant; seq is what
\* serialize emitted.
NoRet == [kind |-> "pending", idx |-> 0, ref |-> Null, val |-> FALSE, seq |-> <<>>]

Frame(op, c, d, key, addr, idx) ==
    [op |-> op, c |-> c, d |-> d, key |-> key, addr |-> addr, idx |-> idx,
     pc |-> "enter", ret |-> NoRet]

\* No sequence held / no raw set owned.
NoData == [some |-> FALSE, seq |-> <<>>, src |-> 0]
NoSet == [some |-> FALSE, set |-> <<>>, cap |-> 0]
\* A thread that is making no call.
Idle == [Frame("none", 0, 0, 0, 0, NoIndex) EXCEPT !.pc = "idle"]

Top == stack[Len(stack)]
Pop == SubSeq(stack, 1, Len(stack) - 1)
SetTop(f) == [stack EXCEPT ![Len(stack)] = f]

\* Addresses of live allocations: stored handles, and values an insert call
\* still owns.
LiveAddrs ==
    UNION {{set[c][i].addr : i \in 1..Len(set[c])} : c \in alive} \cup
    {stack[n].addr : n \in {m \in 1..Len(stack) :
        stack[m].op \in InsertOps /\ stack[m].pc \in {"enter", "body"}}} \cup
    {owned.set[i].addr : i \in 1..Len(owned.set)} \cup
    {threads[u].addr : u \in {w \in Threads : threads[w].op \in InsertOps}}

\* Slots a clone can be bound to: not constructed, not awaited by a clone call.
\* The sets in existence: the containers and the raw set the caller owns.
NumSets == Cardinality(alive) + (IF owned.some THEN 1 ELSE 0)

FreeSlots ==
    (Containers \ alive) \
    {stack[n].d : n \in {m \in 1..Len(stack) : stack[m].op = "clone"}}

Min(S) == CHOOSE x \in S : \A y \in S : x <= y

\* The calls user code can make now, with their arguments.
Calls ==
    {Frame(op, c, 0, k, Fresh(LiveAddrs), NoIndex) :
        op \in InsertOps, c \in alive, k \in Keys} \cup
    {Frame(op, c, 0, k, 0, NoIndex) : op \in GetOps, c \in alive, k \in Keys} \cup
    {Frame(op, c, 0, 0, 0, i) :
        op \in {"get_index", "index"}, c \in alive, i \in 0..MaxKey} \cup
    {Frame("eq", c, d, 0, 0, NoIndex) : c \in alive, d \in alive} \cup
    {Frame("serialize", c, 0, 0, 0, NoIndex) : c \in alive} \cup
    {Frame("clone", c, Min(FreeSlots), 0, 0, NoIndex) :
        c \in {x \in alive : FreeSlots # {}}}

\* ------------------------------------------------------ the guard protocol
\* Mutant: eq guards only self.
GuardsSelfOnly(f) == {f.c}

\* The containers whose flag the operation asserts, sets and clears.
Guards(f) == IF f.op = "eq" THEN {f.c, f.d} ELSE {f.c}

\* Mutant: the entry assertion is missing.
EntryOkUnchecked(f) == TRUE

\* assert!(!self.in_use.get())  (and other.in_use for eq)
EntryOk(f) == \A x \in Guards(f) : ~in_use[x]

\* self.in_use.set(true)
FlagsSet(f) == [x \in Containers |-> IF x \in Guards(f) THEN TRUE ELSE in_use[x]]

\* Mutant: eq sets self's flag before it asserts other's.
FlagsAtRejectSelfSet(f) == [in_use EXCEPT ![f.c] = TRUE]

\* The flags when an entry assertion fails: every assertion of an operation
\* comes before its first in_use.set(true).
FlagsAtReject(f) == in_use

\* Mutant: the flag is not cleared.
FlagsKept(f) == in_use

\* self.in_use.set(false)
FlagsCleared(f) == [x \in Containers |-> IF x \in Guards(f) THEN FALSE ELSE in_use[x]]

\* ------------------------------------------------------------------- Init
Init ==
    /\ alive = {1}
    /\ set = [c \in Containers |-> <<>>]
    /\ cap = [c \in Containers |-> 0]
    /\ in_use = [c \in Containers |-> FALSE]
    /\ stack = <<>>
    /\ unwinding = FALSE
    /\ loans = [c \in Containers |-> <<>>]
    /\ data = NoData
    /\ owned = NoSet
    /\ threads = [u \in Threads |-> Idle]

\* ---------------------------------------------------------------- actions
\* A constructor's result w, with storage for n elements, takes slot c.
Construct(c, w, n) ==
    /\ alive' = alive \cup {c}
    /\ set' = [set EXCEPT ![c] = w.set]
    /\ cap' = [cap EXCEPT ![c] = n]
    /\ in_use' = [in_use EXCEPT ![c] = w.in_use]
    /\ loans' = [loans EXCEPT ![c] = <<>>]

\* FrozenIndexSet::new(): a further empty container.
New ==
    /\ stack = <<>> /\ ~unwinding
    /\ FreeSlots # {} /\ NumSets < NumContainers
    /\ Construct(Min(FreeSlots), From(<<>>), 0)
    /\ UNCHANGED <<stack, unwinding>>
    /\ UNCHANGED ext

\* The top-level caller invokes an operation.
Call ==
    /\ stack = <<>> /\ ~unwinding
    /\ \E f \in Calls : stack' = <<f>>
    /\ UNCHANGED <<alive, set, cap, in_use, unwinding, loans>>
    /\ UNCHANGED ext

\* An element callback running inside an unsafe block invokes an operation.
Reenter ==
    /\ stack # <<>> /\ ~unwinding
    /\ Top.pc = "body" /\ Top.op \in CallbackOps
    /\ Len(stack) < MaxDepth
    /\ \E f \in Calls : stack' = Append(stack, f)
    /\ UNCHANGED <<alive, set, cap, in_use, unwinding, loans>>
    /\ UNCHANGED ext

\* The entry check passes and the flag is set.
Enter ==
    /\ stack # <<>> /\ ~unwinding
    /\ Top.pc = "enter"
    /\ EntryOk(Top)
    /\ in_use' = FlagsSet(Top)
    /\ stack' = SetTop([Top EXCEPT !.pc = "body"])
    /\ UNCHANGED <<alive, set, cap, unwinding, loans>>
    /\ UNCHANGED ext

\* The entry check fails: the assert panics.
EnterReject ==
    /\ stack # <<>> /\ ~unwinding
    /\ Top.pc = "enter"
    /\ ~EntryOk(Top)
    /\ in_use' = FlagsAtReject(Top)
    /\ unwinding' = TRUE
    /\ UNCHANGED <<alive, set, cap, stack, loans>>
    /\ UNCHANGED ext

\* insert / insert_full: the unsafe block.
BodyInsert ==
    /\ stack # <<>> /\ ~unwinding
    /\ Top.pc = "body" /\ Top.op \in InsertOps
    /\ LET f == Top
           c == f.c
           r == SetInsertFull(set[c], [key |-> f.key, addr |-> f.addr])
           n == IF r.vacant /\ Len(set[c]) = cap[c] THEN Grow(cap[c]) ELSE cap[c]
           ref == Deref(r.set[r.index + 1], SlotAddr(c, n, r.index))
       IN  /\ set' = [set EXCEPT ![c] = r.set]
           /\ cap' = [cap EXCEPT ![c] = n]
           /\ stack' = SetTop([f EXCEPT !.pc = "exit",
                  !.ret = IF f.op = "insert"
                            THEN [kind |-> "Ref", idx |-> NoIndex, ref |-> ref, val |-> r.vacant, seq |-> <<>>]
                            ELSE [kind |-> "Pair", idx |-> r.index, ref |-> ref, val |-> r.vacant, seq |-> <<>>]])
    /\ UNCHANGED <<alive, in_use, unwinding, loans>>
    /\ UNCHANGED ext

\* Mutant: get_full counts the index from one.
GetReturnFromOne(op, i, ref) ==
    IF i = NoIndex
      THEN [kind |-> "None", idx |-> NoIndex, ref |-> Null, val |-> FALSE, seq |-> <<>>]
      ELSE [kind |-> "Some", idx |-> IF op = "get_full" THEN i + 1 ELSE NoIndex,
            ref |-> ref, val |-> FALSE, seq |-> <<>>]

\* (*set).get(k).map(|x| &**x)  and  (*set).get_full(k).map(|(i, x)| (i, &**x))
GetReturn(op, i, ref) ==
    IF i = NoIndex
      THEN [kind |-> "None", idx |-> NoIndex, ref |-> Null, val |-> FALSE, seq |-> <<>>]
      ELSE [kind |-> "Some", idx |-> IF op = "get_full" THEN i ELSE NoIndex,
            ref |-> ref, val |-> FALSE, seq |-> <<>>]

\* get / get_full: the unsafe block.
BodyGet ==
    /\ stack # <<>> /\ ~unwinding
    /\ Top.pc = "body" /\ Top.op \in GetOps
    /\ LET f == Top
           c == f.c
           i == SetIndexOf(set[c], f.key)
       IN  stack' = SetTop([f EXCEPT !.pc = "exit",
               !.ret = GetReturn(f.op, i,
                           IF i = NoIndex THEN Null
                           ELSE Deref(set[c][i + 1], SlotAddr(c, cap[c], i)))])
    /\ UNCHANGED <<alive, set, cap, in_use, unwinding, loans>>
    /\ UNCHANGED ext

\* get_index: the unsafe block.
BodyGetIndex ==
    /\ stack # <<>> /\ ~unwinding
    /\ Top.pc = "body" /\ Top.op = "get_index"
    /\ LET f == Top
           c == f.c
       IN  stack' = SetTop([f EXCEPT !.pc = "exit",
               !.ret = IF SetHasIndex(set[c], f.idx)
                         THEN [kind |-> "Some", idx |-> NoIndex,
                               ref |-> Deref(set[c][f.idx + 1], SlotAddr(c, cap[c], f.idx)),
                               val |-> FALSE, seq |-> <<>>]
                         ELSE [kind |-> "None", idx |-> NoIndex, ref |-> Null, val |-> FALSE, seq |-> <<>>]])
    /\ UNCHANGED <<alive, set, cap, in_use, unwinding, loans>>
    /\ UNCHANGED ext

\* container[idx], in range.
BodyIndex ==
    /\ stack # <<>> /\ ~unwinding
    /\ Top.pc = "body" /\ Top.op = "index"
    /\ SetHasIndex(set[Top.c], Top.idx)
    /\ LET f == Top
           c == f.c
       IN  stack' = SetTop([f EXCEPT !.pc = "exit",
               !.ret = [kind |-> "Ref", idx |-> NoIndex,
                        ref |-> Deref(set[c][f.idx + 1], SlotAddr(c, cap[c], f.idx)),
                        val |-> FALSE, seq |-> <<>>]])
    /\ UNCHANGED <<alive, set, cap, in_use, unwinding, loans>>
    /\ UNCHANGED ext

\* container[idx], out of range: IndexSet's indexing panics.
BodyIndexPanic ==
    /\ stack # <<>> /\ ~unwinding
    /\ Top.pc = "body" /\ Top.op = "index"
    /\ ~SetHasIndex(set[Top.c], Top.idx)
    /\ unwinding' = TRUE
    /\ UNCHANGED <<alive, set, cap, in_use, stack, loans>>
    /\ UNCHANGED ext

\* a == b: the unsafe block.
BodyEq ==
    /\ stack # <<>> /\ ~unwinding
    /\ Top.pc = "body" /\ Top.op = "eq"
    /\ stack' = SetTop([Top EXCEPT !.pc = "exit",
           !.ret = [kind |-> "Bool", idx |-> NoIndex, ref |-> Null,
                    val |-> SetEq(set[Top.c], set[Top.d]), seq |-> <<>>]])
    /\ UNCHANGED <<alive, set, cap, in_use, unwinding, loans>>
    /\ UNCHANGED ext

\* clone: the new container is built from a clone of the set, flag false.
BodyClone ==
    /\ stack # <<>> /\ ~unwinding
    /\ Top.pc = "body" /\ Top.op = "clone"
    /\ LET f == Top
           s == SetClone(set[f.c], LiveAddrs)
       IN  /\ alive' = alive \cup {f.d}
           /\ set' = [set EXCEPT ![f.d] = s]
           /\ cap' = [cap EXCEPT ![f.d] = Len(s)]
           /\ in_use' = [in_use EXCEPT ![f.d] = FALSE]
           /\ loans' = [loans EXCEPT ![f.d] = <<>>]
           /\ stack' = SetTop([f EXCEPT !.pc = "exit",
                  !.ret = [kind |-> "Obj", idx |-> f.d, ref |-> Null, val |-> FALSE, seq |-> <<>>]])
    /\ UNCHANGED unwinding
    /\ UNCHANGED ext

\* serialize: the unsafe block hands the set to the serializer.
BodySerialize ==
    /\ stack # <<>> /\ ~unwinding
    /\ Top.pc = "body" /\ Top.op = "serialize"
    /\ stack' = SetTop([Top EXCEPT !.pc = "exit",
           !.ret = [kind |-> "Ser", idx |-> NoIndex, ref |-> Null, val |-> FALSE,
                    seq |-> SetSerialize(set[Top.c])]])
    /\ UNCHANGED <<alive, set, cap, in_use, unwinding, loans>>
    /\ UNCHANGED ext

\* An element callback (Hash, Eq, Clone, Serialize) panics inside the unsafe
\* block.
CallbackPanic ==
    /\ stack # <<>> /\ ~unwinding
    /\ Top.pc = "body" /\ Top.op \in CallbackOps
    /\ unwinding' = TRUE
    /\ UNCHANGED <<alive, set, cap, in_use, stack, loans>>
    /\ UNCHANGED ext

\* The reference an insert returns is held by the caller from then on.
Lend(f) ==
    LET e == [key |-> f.key, idx |-> SetIndexOf(set[f.c], f.key), ref |-> f.ret.ref,
              first |-> f.ret.val]
        held == \E n \in 1..Len(loans[f.c]) :
                    LET l == loans[f.c][n]
                    IN  l.key = e.key /\ l.idx = e.idx /\ l.ref = e.ref
    IN  IF f.op \in InsertOps /\ ~held
          THEN [loans EXCEPT ![f.c] = Append(@, e)]
          ELSE loans

\* The flag is cleared and the operation returns.
Exit ==
    /\ stack # <<>> /\ ~unwinding
    /\ Top.pc = "exit"
    /\ in_use' = FlagsCleared(Top)
    /\ loans' = Lend(Top)
    /\ stack' = Pop
    /\ UNCHANGED <<alive, set, cap, unwinding>>
    /\ UNCHANGED ext

\* A panic leaves a frame; the source has no guard object, so no flag is
\* touched.  The top-level caller catches the panic.
Unwind ==
    /\ unwinding /\ stack # <<>>
    /\ stack' = Pop
    /\ unwinding' = (Pop # <<>>)
    /\ UNCHANGED <<alive, set, cap, in_use, loans>>
    /\ UNCHANGED ext

\* ------------------------------------------ construction, exclusive access
\* The input sequences a caller prepares: elements may repeat.
MaxInput == 3
Inputs == UNION {[1..n -> Keys] : n \in 0..MaxInput}

\* The operations the single owner calls in these executions.
OwnOps == {"insert_full", "get", "get_full", "index"}

\* The owner invokes an operation.
CallOwn ==
    /\ stack = <<>> /\ ~unwinding
    /\ \E f \in Calls : f.op \in OwnOps /\ stack' = <<f>>
    /\ UNCHANGED <<alive, set, cap, in_use, unwinding, loans>>
    /\ UNCHANGED ext

\* The operations called in the executions that serialize and deserialize.
SerdeOps == {"insert_full", "index", "serialize"}

\* The caller invokes one of them.
CallSerde ==
    /\ stack = <<>> /\ ~unwinding
    /\ \E f \in Calls : f.op \in SerdeOps /\ stack' = <<f>>
    /\ UNCHANGED <<alive, set, cap, in_use, unwinding, loans>>
    /\ UNCHANGED ext

\* FrozenIndexSet::default().
Default ==
    /\ stack = <<>> /\ ~unwinding
    /\ FreeSlots # {} /\ NumSets < NumContainers
    /\ Construct(Min(FreeSlots), From(<<>>), 0)
    /\ UNCHANGED <<stack, unwinding>>
    /\ UNCHANGED ext

\* FrozenIndexSet::from(set): the caller's ordered set is moved in.
FromSet ==
    /\ stack = <<>> /\ ~unwinding
    /\ FreeSlots # {} /\ owned.some
    /\ Construct(Min(FreeSlots), From(owned.set), owned.cap)
    /\ owned' = NoSet
    /\ UNCHANGED <<stack, unwinding, data, threads>>

\* from_iter(q): the elements are collected into an IndexSet, which is
\* wrapped.
FromIterOf(q) ==
    /\ stack = <<>> /\ ~unwinding
    /\ FreeSlots # {} /\ NumSets < NumContainers
    /\ LET s == SetCollect(q, LiveAddrs)
       IN  Construct(Min(FreeSlots), From(s), Len(s))
    /\ UNCHANGED <<stack, unwinding>>
    /\ UNCHANGED ext

FromIter == \E q \in Inputs : FromIterOf(q)

\* deserialize: IndexSet::deserialize reads the sequence, the result is
\* wrapped by From.
Deserialize ==
    /\ stack = <<>> /\ ~unwinding
    /\ FreeSlots # {} /\ NumSets < NumContainers /\ data.some
    /\ LET s == SetDeserialize(data.seq, LiveAddrs)
       IN  Construct(Min(FreeSlots), From(s), Len(s))
    /\ data' = NoData
    /\ UNCHANGED <<stack, unwinding, owned, threads>>

\* serialize returns and the caller keeps what was written.
ExitSerializeKeep ==
    /\ stack # <<>> /\ ~unwinding
    /\ Top.pc = "exit" /\ Top.op = "serialize"
    /\ in_use' = FlagsCleared(Top)
    /\ loans' = Lend(Top)
    /\ stack' = Pop
    /\ data' = [some |-> TRUE, seq |-> Top.ret.seq, src |-> Top.c]
    /\ UNCHANGED <<alive, set, cap, unwinding, owned, threads>>

\* Mutant: exclusive access asserts the flag like the shared operations.
ExclusiveOkChecked(c) == ~in_use[c]

\* into_set and as_mut make no assertion on the flag.
ExclusiveOk(c) == TRUE

\* into_set and as_mut do not write the flag.
ExclusiveFlags(c) == in_use

\* into_set: the container is consumed, the caller owns its set.  By
\* ownership no call is running and every reference lent out has ended.
IntoSetOf(c) ==
    /\ stack = <<>> /\ ~unwinding
    /\ ~owned.some
    /\ c \in alive /\ ExclusiveOk(c)
    /\ owned' = [some |-> TRUE, set |-> set[c], cap |-> cap[c]]
    /\ alive' = alive \ {c}
    /\ set' = [set EXCEPT ![c] = <<>>]
    /\ cap' = [cap EXCEPT ![c] = 0]
    /\ in_use' = ExclusiveFlags(c)
    /\ loans' = [loans EXCEPT ![c] = <<>>]
    /\ UNCHANGED <<stack, unwinding, data, threads>>

IntoSet == \E c \in Containers : IntoSetOf(c)

\* as_mut, and the holder of the &mut IndexSet removes the element equal to
\* k with shift_remove.  &mut self: no call is running, no reference lent
\* out is alive.
AsMutShiftRemoveOf(c, k) ==
    /\ stack = <<>> /\ ~unwinding
    /\ c \in alive /\ ExclusiveOk(c)
    /\ SetIndexOf(set[c], k) # NoIndex
    /\ set' = [set EXCEPT ![c] = SetShiftRemove(set[c], k)]
    /\ in_use' = ExclusiveFlags(c)
    /\ loans' = [loans EXCEPT ![c] = <<>>]
    /\ UNCHANGED <<alive, cap, stack, unwinding>>
    /\ UNCHANGED ext

AsMutShiftRemove == \E c \in Containers, k \in Keys : AsMutShiftRemoveOf(c, k)

\* as_mut, and the holder removes the element equal to k with swap_remove.
AsMutSwapRemoveOf(c, k) ==
    /\ stack = <<>> /\ ~unwinding
    /\ c \in alive /\ ExclusiveOk(c)
    /\ SetIndexOf(set[c], k) # NoIndex
    /\ set' = [set EXCEPT ![c] = SetSwapRemove(set[c], k)]
    /\ in_use' = ExclusiveFlags(c)
    /\ loans' = [loans EXCEPT ![c] = <<>>]
    /\ UNCHANGED <<alive, cap, stack, unwinding>>
    /\ UNCHANGED ext

AsMutSwapRemove == \E c \in Containers, k \in Keys : AsMutSwapRemoveOf(c, k)

\* ------------------------------------------------- two threads, one container
\* The type is !Sync; these are the executions a caller gets who shares a
\* container between threads all the same.  assert!(!in_use.get()) and
\* in_use.set(true) are two statements, so the threads' steps interleave
\* between them; a racing read of the Cell sees the old or the new value,
\* which is what the interleaving yields.
ThreadOps == {"insert", "get"}

\* Thread t invokes an operation.
ThreadCallOf(t) ==
    /\ threads[t].pc = "idle"
    /\ \E f \in Calls : f.op \in ThreadOps /\ threads' = [threads EXCEPT ![t] = f]
    /\ UNCHANGED <<alive, set, cap, in_use, stack, unwinding, loans, data, owned>>

ThreadCall == \E t \in Threads : ThreadCallOf(t)

\* Mutant: the check takes a lock that is held until the operation returns.
ThreadMayPassLocked(t) ==
    /\ ~in_use[threads[t].c]
    /\ \A u \in Threads \ {t} :
          threads[u].c = threads[t].c => threads[u].pc \notin {"checked", "body", "exit"}

\* assert!(!self.in_use.get()): the flag is all that is looked at.
ThreadMayPass(t) == ~in_use[threads[t].c]

\* The assertion holds for thread t; nothing is written.
ThreadCheckOf(t) ==
    /\ threads[t].pc = "enter"
    /\ ThreadMayPass(t)
    /\ threads' = [threads EXCEPT ![t].pc = "checked"]
    /\ UNCHANGED <<alive, set, cap, in_use, stack, unwinding, loans, data, owned>>

ThreadCheck == \E t \in Threads : ThreadCheckOf(t)

\* The assertion fails for thread t: the panic ends its call, the value it
\* passed is dropped.
ThreadCheckFailOf(t) ==
    /\ threads[t].pc = "enter"
    /\ in_use[threads[t].c]
    /\ threads' = [threads EXCEPT ![t] = Idle]
    /\ UNCHANGED <<alive, set, cap, in_use, stack, unwinding, loans, data, owned>>

ThreadCheckFail == \E t \in Threads : ThreadCheckFailOf(t)

\* self.in_use.set(true), and the thread goes on into the unsafe block.
ThreadSetOf(t) ==
    /\ threads[t].pc = "checked"
    /\ in_use' = FlagsSet(threads[t])
    /\ threads' = [threads EXCEPT ![t].pc = "body"]
    /\ UNCHANGED <<alive, set, cap, stack, unwinding, loans, data, owned>>

ThreadSet == \E t \in Threads : ThreadSetOf(t)

\* Another thread is inside the unsafe block of the same container, and one
\* of the two writes the set.
Racing(t) ==
    \E u \in Threads \ {t} :
        /\ threads[u].pc = "body" /\ threads[u].c = threads[t].c
        /\ threads[u].op \in InsertOps \/ threads[t].op \in InsertOps

\* The unsafe block of thread t, no other access under way.
ThreadBodyOf(t) ==
    /\ threads[t].pc = "body" /\ ~Racing(t)
    /\ LET f == threads[t]
           c == f.c
       IN  IF f.op \in InsertOps
             THEN LET r == SetInsertFull(set[c], [key |-> f.key, addr |-> f.addr])
                      n == IF r.vacant /\ Len(set[c]) >= cap[c] THEN Grow(cap[c]) ELSE cap[c]
                      ref == Deref(r.set[r.index + 1], SlotAddr(c, n, r.index))
                  IN  /\ set' = [set EXCEPT ![c] = r.set]
                      /\ cap' = [cap EXCEPT ![c] = n]
                      /\ threads' = [threads EXCEPT ![t].pc = "exit",
                             ![t].ret = [kind |-> "Ref", idx |-> NoIndex, ref |-> ref,
                                         val |-> r.vacant, seq |-> <<>>]]
             ELSE LET i == SetIndexOf(set[c], f.key)
                  IN  /\ threads' = [threads EXCEPT ![t].pc = "exit",
                             ![t].ret = GetReturn(f.op, i,
                                 IF i = NoIndex THEN Null
                                 ELSE Deref(set[c][i + 1], SlotAddr(c, cap[c], i)))]
                      /\ UNCHANGED <<set, cap>>
    /\ UNCHANGED <<alive, in_use, stack, unwinding, loans, data, owned>>

ThreadBody == \E t \in Threads : ThreadBodyOf(t)

\* What a data race on the set can leave behind: any arrangement, with
\* losses and repetitions, of the handles involved.
RaceSets(f) ==
    LET H == {set[f.c][i] : i \in 1..Len(set[f.c])} \cup
             (IF f.op \in InsertOps THEN {[key |-> f.key, addr |-> f.addr]} ELSE {})
    IN  UNION {[1..n -> H] : n \in 0..MaxKey}

\* The unsafe block of thread t while another thread is inside it too: a
\* data race, undefined behaviour.  The set's contents and the result come
\* out as any of the outcomes above.
ThreadBodyRaceOf(t) ==
    /\ threads[t].pc = "body" /\ Racing(t)
    /\ LET f == threads[t]
       IN  /\ \E s \in RaceSets(f) : set' = [set EXCEPT ![f.c] = s]
           /\ \E k \in {"None", "Some", "Ref"} :
                 threads' = [threads EXCEPT ![t].pc = "exit",
                                            ![t].ret = [NoRet EXCEPT !.kind = k]]
    /\ UNCHANGED <<alive, cap, in_use, stack, unwinding, loans, data, owned>>

ThreadBodyRace == \E t \in Threads : ThreadBodyRaceOf(t)

\* self.in_use.set(false); ret.  The references the threads receive are not
\* followed in these executions.
ThreadExitOf(t) ==
    /\ threads[t].pc = "exit"
    /\ in_use' = FlagsCleared(threads[t])
    /\ threads' = [threads EXCEPT ![t] = Idle]
    /\ UNCHANGED <<alive, set, cap, stack, unwinding, loans, data, owned>>

ThreadExit == \E t \in Threads : ThreadExitOf(t)

Next ==
    \/ New
    \/ Call
    \/ Reenter
    \/ Enter
    \/ EnterReject
    \/ BodyInsert
    \/ BodyGet
    \/ BodyGetIndex
    \/ BodyIndex
    \/ BodyIndexPanic
    \/ BodyEq
    \/ BodyClone
    \/ BodySerialize
    \/ CallbackPanic
    \/ Exit
    \/ Unwind

Spec == Init /\ [][Next]_vars

\* The executions of a single owner that also constructs containers from
\* sets and sequences, consumes them and uses as_mut.  The element callbacks
\* return normally and call nothing.
NextOwn ==
    \/ New
    \/ Default
    \/ FromSet
    \/ FromIter
    \/ IntoSet
    \/ AsMutShiftRemove
    \/ AsMutSwapRemove
    \/ CallOwn
    \/ Enter
    \/ EnterReject
    \/ BodyInsert
    \/ BodyGet
    \/ BodyIndex
    \/ BodyIndexPanic
    \/ Exit
    \/ Unwind

SpecOwn == Init /\ [][NextOwn]_vars

\* The executions in which containers are serialized and what was written is
\* deserialized again.
NextSerde ==
    \/ New
    \/ Deserialize
    \/ CallSerde
    \/ Enter
    \/ EnterReject
    \/ BodyInsert
    \/ BodyIndex
    \/ BodyIndexPanic
    \/ BodySerialize
    \/ Exit
    \/ ExitSerializeKeep
    \/ Unwind

SpecSerde == Init /\ [][NextSerde]_vars

\* The executions of threads that share the containers unsynchronized.
NextThreads ==
    \/ ThreadCall
    \/ ThreadCheck
    \/ ThreadCheckFail
    \/ ThreadSet
    \/ ThreadBody
    \/ ThreadBodyRace
    \/ ThreadExit

SpecThreads == Init /\ [][NextThreads]_vars

\* ================================================================= claims
Running == stack # <<>> /\ ~unwinding
\* This step completes the unsafe block of the innermost call, an op in ops.
BodyDone(ops) ==
    /\ Running /\ Top.pc = "body" /\ Top.op \in ops
    /\ ~unwinding' /\ Len(stack') = Len(stack)
    /\ stack'[Len(stack)].pc = "exit"
\* This step returns from the innermost call, an op in ops.
Returns(ops) ==
    /\ Running /\ Top.pc = "exit" /\ Top.op \in ops
    /\ stack' = Pop
KeysOf(s) == [i \in 1..Len(s) |-> s[i].key]
\* The innermost call was made while an outer call on one of its containers
\* is between its flag set and its flag clear.
Reentrant ==
    /\ stack # <<>> /\ Top.pc = "enter"
    /\ \E m \in 1..(Len(stack) - 1) :
          /\ stack[m].pc \in {"body", "exit"}
          /\ Guards(stack[m]) \cap Guards(Top) # {}

\* C1: a call made on a container while another operation on that container
\* is in flight can take only the panic step at its entry check, with the set
\* untouched, and is then unwound without ever completing its block.
C1_ReentrantCallAborts ==
    [][Reentrant =>
        /\ \/ (~unwinding /\ unwinding' /\ stack' = stack)
           \/ (unwinding /\ stack' = Pop)
        /\ UNCHANGED <<alive, set, cap>>]_vars

C1_Witness ==
    /\ Reentrant /\ unwinding
    /\ Len(stack) = 2
    /\ stack[1].op \in InsertOps /\ stack[1].pc = "body"
    /\ Top.c = stack[1].c

\* C2 (as claimed): once no operation is running, whether the last one
\* returned or panicked, every container's flag is false.
C2_FlagClearWhenIdle ==
    (stack = <<>> /\ ~unwinding) => \A c \in alive : ~in_use[c]

\* C3: a reference handed out by insert/insert_full for a key stays the address
\* of that key's target, and every later get, get_full, get_index or indexing
\* that finds the element returns exactly that address, whatever insertions
\* and storage growth happened in between.
C3_ReferenceStability ==
    \A c \in alive : \A n \in 1..Len(loans[c]) :
        LET l == loans[c][n]
        IN  /\ SetHasIndex(set[c], l.idx)
            /\ set[c][l.idx + 1].key = l.key
            /\ (stack # <<>> /\ Top.pc = "exit" /\ Top.c = c) =>
                  /\ (Top.op \in GetOps /\ Top.key = l.key) =>
                        (Top.ret.kind = "Some" /\ Top.ret.ref = l.ref)
                  /\ (Top.op \in {"get_index", "index"} /\ Top.idx = l.idx) =>
                        (Top.ret.kind \in {"Some", "Ref"} /\ Top.ret.ref = l.ref)

\* The element at index 0 was inserted when the storage had capacity 1; the
\* storage has grown since, and get_index(0) is returning.
C3_Witness ==
    /\ stack # <<>> /\ Top.pc = "exit" /\ Top.op = "get_index" /\ Top.idx = 0
    /\ cap[Top.c] >= 2
    /\ \E n \in 1..Len(loans[Top.c]) :
          loans[Top.c][n].idx = 0 /\ loans[Top.c][n].ref = Top.ret.ref

\* C4: in every step the element count of every container does not decrease,
\* and every stored element stays the same handle at the same index and is
\* still found by its key at that index.
C4_AppendOnly ==
    [][\A c \in alive :
          /\ c \in alive'
          /\ Len(set'[c]) >= Len(set[c])
          /\ \A i \in 1..Len(set[c]) :
                /\ set'[c][i] = set[c][i]
                /\ SetIndexOf(set'[c], set[c][i].key) = i - 1]_vars

\* get_full of the first element's key answers index 0 after a later insertion.
C4_Witness ==
    /\ stack # <<>> /\ Top.pc = "exit" /\ Top.op = "get_full"
    /\ Len(set[Top.c]) = MaxKey
    /\ Top.key = set[Top.c][1].key
    /\ Top.ret.kind = "Some" /\ Top.ret.idx = 0

NoDuplicates ==
    \A c \in alive : \A i, j \in 1..Len(set[c]) :
        i # j => set[c][i].key # set[c][j].key

\* C5: insert or insert_full of a value equal to a stored element leaves every
\* container's elements as they were, returns the index and the reference that
\* the element's original insertion returned (not the new value's), and no
\* container ever holds two equal elements.
C5_IdempotentInsert ==
    /\ []NoDuplicates
    /\ [][(BodyDone(InsertOps) /\ SetIndexOf(set[Top.c], Top.key) # NoIndex) =>
            LET f == Top
                g == stack'[Len(stack)]
            IN  /\ set' = set
                /\ ~g.ret.val
                /\ g.ret.ref # <<"heap", f.addr>>
                /\ f.op = "insert_full" => g.ret.idx = SetIndexOf(set[f.c], f.key)
                /\ \A n \in 1..Len(loans[f.c]) :
                      loans[f.c][n].key = f.key =>
                          /\ g.ret.ref = loans[f.c][n].ref
                          /\ f.op = "insert_full" => g.ret.idx = loans[f.c][n].idx]_vars

\* insert_full of an equal value is returning what the first insertion returned.
C5_Witness ==
    /\ stack # <<>> /\ Top.pc = "exit" /\ Top.op = "insert_full"
    /\ ~Top.ret.val
    /\ \E n \in 1..Len(loans[Top.c]) :
          LET l == loans[Top.c][n]
          IN  l.first /\ l.key = Top.key /\ l.idx = Top.ret.idx /\ l.ref = Top.ret.ref

\* Every element of c was inserted through insert/insert_full.
BuiltByInsertions(c) ==
    /\ Len(loans[c]) = Len(set[c])
    /\ \A n \in 1..Len(loans[c]) : loans[c][n].first

\* The references of first insertions are in index order, and get_index(i) of
\* a container built by insertions returns the (i+1)-th of them.
InsertionOrder ==
    \A c \in alive :
        /\ \A p, q \in 1..Len(loans[c]) :
              (p < q /\ loans[c][p].first /\ loans[c][q].first) =>
                  loans[c][p].idx < loans[c][q].idx
        /\ (BuiltByInsertions(c) /\ stack # <<>> /\ Top.pc = "exit"
              /\ Top.c = c /\ Top.op = "get_index" /\ Top.idx < Len(set[c])) =>
                  /\ loans[c][Top.idx + 1].idx = Top.idx
                  /\ Top.ret.kind = "Some"
                  /\ Top.ret.ref = loans[c][Top.idx + 1].ref

\* C6: insert/insert_full of a value not yet present appends it, insert_full
\* returning the element count before the call as its index; so get_index
\* 0, 1, ... of a container built by insertions yields the elements in the
\* order of their first insertion.
C6_IndexOrder ==
    /\ []InsertionOrder
    /\ [][(BodyDone(InsertOps) /\ SetIndexOf(set[Top.c], Top.key) = NoIndex) =>
            LET f == Top
                g == stack'[Len(stack)]
            IN  /\ set'[f.c] = Append(set[f.c], [key |-> f.key, addr |-> f.addr])
                /\ g.ret.val
                /\ f.op = "insert_full" => g.ret.idx = Len(set[f.c])]_vars

\* get_index(1) on a container built by two insertions returns the second.
C6_Witness ==
    /\ stack # <<>> /\ Top.pc = "exit" /\ Top.op = "get_index" /\ Top.idx = 1
    /\ BuiltByInsertions(Top.c) /\ Len(set[Top.c]) = 2
    /\ Top.ret.ref = loans[Top.c][2].ref

ElementsOf(s) == {s[i].key : i \in 1..Len(s)}

\* C7 (as claimed): a == b answers true exactly when the two sets hold the
\* same elements in the same order.
C7_EqualityOrdered ==
    (stack # <<>> /\ Top.pc = "exit" /\ Top.op = "eq") =>
        (Top.ret.val <=> KeysOf(set[Top.c]) = KeysOf(set[Top.d]))

\* C7 (amended): a == b answers true exactly when the two sets have the same
\* number of elements and hold the same elements, in whatever order.
C7_EqualityUnordered ==
    (stack # <<>> /\ Top.pc = "exit" /\ Top.op = "eq") =>
        (Top.ret.val <=>
            /\ Len(set[Top.c]) = Len(set[Top.d])
            /\ ElementsOf(set[Top.c]) = ElementsOf(set[Top.d]))

\* Two containers holding the same two elements in different orders are
\* compared, and the answer is true.
C7_Witness ==
    /\ stack # <<>> /\ Top.pc = "exit" /\ Top.op = "eq"
    /\ Len(set[Top.c]) = 2
    /\ ElementsOf(set[Top.c]) = ElementsOf(set[Top.d])
    /\ KeysOf(set[Top.c]) # KeysOf(set[Top.d])
    /\ Top.ret.val

\* C8: the block of get_index always completes, with the absent-signal exactly
\* when the index is not below the element count and the element's target
\* otherwise; the block of container[i] completes with that same target when
\* the index is in range and panics, to be unwound without a value, when it
\* is not; neither changes any set.
C8_PositionalAccess ==
    [][/\ (Running /\ Top.pc = "body" /\ Top.op = "get_index") =>
            LET f == Top
                g == stack'[Len(stack)]
            IN  /\ BodyDone({"get_index"})
                /\ UNCHANGED <<alive, set, cap>>
                /\ g.ret.kind = "None" <=> f.idx >= Len(set[f.c])
                /\ f.idx < Len(set[f.c]) =>
                      /\ g.ret.kind = "Some"
                      /\ g.ret.ref = <<"heap", set[f.c][f.idx + 1].addr>>
       /\ (Running /\ Top.pc = "body" /\ Top.op = "index") =>
            LET f == Top
                g == stack'[Len(stack)]
            IN  /\ UNCHANGED <<alive, set, cap>>
                /\ IF f.idx < Len(set[f.c])
                     THEN /\ BodyDone({"index"})
                          /\ g.ret.kind = "Ref"
                          /\ g.ret.ref = <<"heap", set[f.c][f.idx + 1].addr>>
                     ELSE unwinding' /\ stack' = stack
       /\ (unwinding /\ stack # <<>> /\ Top.op = "index") =>
            (stack' = Pop /\ UNCHANGED <<alive, set, cap>>)]_vars

\* container[i] with i past the last element of a non-empty container has
\* panicked.
C8_Witness ==
    /\ unwinding /\ Len(stack) = 1
    /\ Top.op = "index" /\ Top.pc = "body"
    /\ Len(set[Top.c]) >= 1 /\ Top.idx >= Len(set[Top.c])

Lookups == GetOps \cup {"get_index"}

\* C9: no step of a get, get_full or get_index call changes any set; when the
\* block completes it has the absent-signal exactly on a miss; and when the
\* call returns the container's flag is false.
C9_LookupNoSideEffect ==
    [][/\ (stack # <<>> /\ Top.op \in Lookups) => UNCHANGED <<alive, set, cap>>
       /\ BodyDone(GetOps) =>
            LET f == Top
                g == stack'[Len(stack)]
            IN  /\ g.ret.kind = "None" <=> f.key \notin ElementsOf(set[f.c])
                /\ g.ret.kind \in {"None", "Some"}
       /\ (Running /\ Top.pc = "body" /\ Top.op = "get_index") => ~unwinding'
       /\ Returns(Lookups) => ~in_use'[Top.c]]_vars

\* get of a key that a non-empty container does not hold is returning the
\* absent-signal.
C9_Witness ==
    /\ stack # <<>> /\ Top.pc = "exit" /\ Top.op = "get"
    /\ Top.ret.kind = "None"
    /\ Len(set[Top.c]) >= 1

\* C10: the block of clone builds a container with the source's elements in
\* the source's order and a false flag, changing no existing container; when
\* clone returns, the source's flag is false as it was at the call; and an
\* insertion into one container changes no other container's set.
C10_Clone ==
    [][/\ BodyDone({"clone"}) =>
            LET f == Top
            IN  /\ f.d \notin alive /\ alive' = alive \cup {f.d}
                /\ KeysOf(set'[f.d]) = KeysOf(set[f.c])
                /\ ~in_use'[f.d]
                /\ \A x \in alive :
                      set'[x] = set[x] /\ in_use'[x] = in_use[x]
       /\ Returns({"clone"}) =>
            /\ ~in_use'[Top.c] /\ ~in_use'[Top.d]
            /\ UNCHANGED <<alive, set>>
       /\ BodyDone(InsertOps) =>
            \A x \in alive \ {Top.c} : set'[x] = set[x]]_vars

\* A clone of a two-element container is being returned.
C10_Witness ==
    /\ stack # <<>> /\ Top.pc = "exit" /\ Top.op = "clone"
    /\ Len(set[Top.c]) = 2
    /\ KeysOf(set[Top.d]) = KeysOf(set[Top.c])
    /\ set[Top.d] # set[Top.c]

\* The calls that are between their flag set and their flag clear on c.
Active(c) ==
    {n \in 1..Len(stack) : stack[n].pc \in {"body", "exit"} /\ c \in Guards(stack[n])}

\* C13 (as claimed): at most one operation per container is inside its guarded
\* region, and a container's flag is true in exactly the states where one is.
C13_SingleActiveFlagExact ==
    \A c \in alive :
        /\ Cardinality(Active(c)) <= 1
        /\ in_use[c] <=> Active(c) # {}

\* C16: while a == b is inside its guarded region both operands' flags are
\* true; a == b made while either operand is in flight, and any call made from
\* inside the comparison on either operand, takes only the panic step; and
\* when a comparison returns both flags are false, also for a == a.
C16_EqGuardsBoth ==
    /\ [](\A n \in 1..Len(stack) :
            (stack[n].op = "eq" /\ stack[n].pc \in {"body", "exit"}) =>
                (in_use[stack[n].c] /\ in_use[stack[n].d]))
    /\ [][/\ (Running /\ Top.pc = "enter" /\ Top.op = "eq"
                /\ (Active(Top.c) # {} \/ Active(Top.d) # {})) =>
                    (unwinding' /\ stack' = stack)
          /\ (Running /\ Top.pc = "enter"
                /\ \E m \in 1..(Len(stack) - 1) :
                      /\ stack[m].op = "eq" /\ stack[m].pc = "body"
                      /\ Top.c \in {stack[m].c, stack[m].d}) =>
                    (unwinding' /\ stack' = stack)
          /\ Returns({"eq"}) => (~in_use'[Top.c] /\ ~in_use'[Top.d])]_vars

\* A call made from inside a == b on the second operand has panicked.
C16_Witness ==
    /\ unwinding /\ Len(stack) = 2
    /\ stack[1].op = "eq" /\ stack[1].pc = "body" /\ stack[1].c # stack[1].d
    /\ Top.pc = "enter" /\ Top.op # "eq" /\ Top.c = stack[1].d

\* C18: a call rejected at its entry check because one of its containers is
\* in flight changes no set and no flag, neither in the panic step nor while
\* it is unwound; when a == b is rejected because only b is in flight, a's
\* flag is still false.
C18_RejectedCallChangesNothing ==
    [][/\ Reentrant => UNCHANGED <<alive, set, cap, in_use, loans>>
       /\ (Reentrant /\ Top.op = "eq" /\ Active(Top.c) = {} /\ ~in_use[Top.c]) =>
             ~in_use'[Top.c]]_vars

\* a == b has been rejected because b is in flight; a's flag is false.
C18_Witness ==
    /\ unwinding /\ Len(stack) = 2
    /\ Top.pc = "enter" /\ Top.op = "eq" /\ Top.c # Top.d
    /\ stack[1].c = Top.d /\ stack[1].pc = "body" /\ stack[1].op # "eq"
    /\ ~in_use[Top.c] /\ in_use[Top.d]

\* The target of the element at index i of container c.
TargetAt(c, i) == <<"heap", set[c][i + 1].addr>>
\* The indices at which container c holds an element equal to k.
IndicesOf(c, k) == {i \in 0..(Len(set[c]) - 1) : set[c][i + 1].key = k}

\* C15: insert and insert_full change the set in the same way and both return
\* the target of the stored element equal to the value, insert_full with that
\* element's index; get and get_full are absent together and otherwise both
\* return the target of the element equal to the key, get_full with its index;
\* and get_index(i) and container[i] return the target of the element at i, so
\* the index get_full or insert_full returned leads get_index to the same
\* reference.
C15_PlainAndFullAgree ==
    /\ [](stack # <<>> /\ Top.pc = "exit" =>
            LET f == Top
                c == f.c
            IN  /\ f.op \in InsertOps =>
                      \E i \in IndicesOf(c, f.key) :
                          /\ f.ret.ref = TargetAt(c, i)
                          /\ f.ret.idx = IF f.op = "insert_full" THEN i ELSE NoIndex
                /\ f.op \in GetOps =>
                      IF IndicesOf(c, f.key) = {}
                        THEN f.ret.kind = "None"
                        ELSE /\ f.ret.kind = "Some"
                             /\ \E i \in IndicesOf(c, f.key) :
                                   /\ f.ret.ref = TargetAt(c, i)
                                   /\ f.ret.idx = IF f.op = "get_full" THEN i ELSE NoIndex
                /\ (f.op \in {"get_index", "index"} /\ f.idx < Len(set[c])) =>
                      /\ f.ret.ref = TargetAt(c, f.idx)
                      /\ \A n \in 1..Len(loans[c]) :
                            loans[c][n].idx = f.idx => f.ret.ref = loans[c][n].ref)
    /\ [][BodyDone(InsertOps) =>
            LET f == Top
            IN  /\ set' = [set EXCEPT ![f.c] =
                      IF IndicesOf(f.c, f.key) # {} THEN @
                      ELSE Append(@, [key |-> f.key, addr |-> f.addr])]
                /\ in_use' = in_use /\ alive' = alive]_vars

\* get_full is returning index 1 with the reference insert_full returned for
\* that index.
C15_Witness ==
    /\ stack # <<>> /\ Top.pc = "exit" /\ Top.op = "get_full"
    /\ Top.ret.kind = "Some" /\ Top.ret.idx = 1
    /\ \E n \in 1..Len(loans[Top.c]) :
          /\ loans[Top.c][n].idx = 1
          /\ loans[Top.c][n].ref = Top.ret.ref

\* C11: serialize writes the elements as a sequence in insertion order (the
\* element whose first insertion returned index i is the (i+1)-th written), and
\* deserializing what was written yields a container with its flag clear
\* that equals the original while that has not changed: the same count and,
\* at every index, the same element.
C11_RoundTrip ==
    [][/\ ExitSerializeKeep =>
            /\ Len(data'.seq) = Len(set[Top.c])
            /\ \A i \in 1..Len(set[Top.c]) : data'.seq[i] = set[Top.c][i].key
            /\ \A n \in 1..Len(loans[Top.c]) :
                  LET l == loans[Top.c][n]
                  IN  l.first => data'.seq[l.idx + 1] = l.key
       /\ Deserialize =>
            LET d == Min(FreeSlots)
                o == data.src
            IN  /\ d \in alive' /\ ~in_use'[d]
                /\ Len(set[o]) = Len(data.seq) =>
                      /\ Len(set'[d]) = Len(set[o])
                      /\ \A i \in 1..Len(set[o]) : set'[d][i].key = set[o][i].key
                      /\ SetEq(set'[d], set'[o]) /\ SetEq(set'[o], set'[d])]_vars

\* A two-element container has been serialized and read back: the second
\* container holds the same elements at the same indices, in allocations of
\* its own, and has lent nothing out.
C11_Witness ==
    /\ alive = {1, 2} /\ stack = <<>> /\ data = NoData
    /\ Len(set[1]) = 2 /\ KeysOf(set[2]) = KeysOf(set[1])
    /\ loans[2] = <<>> /\ ~in_use[2]

\* The position (from 1) of the element equal to k in s.
IndicesOfKey(s, k) == CHOOSE j \in 1..Len(s) : s[j].key = k

\* C12: removing the element equal to k through as_mut leaves the container
\* without k and with one element fewer (so the count can shrink and, after
\* shift_remove, the later elements move one index down), and every get /
\* get_full that returns afterwards reports what the set now holds: absent
\* for a key that is not in it.
C12_RemovalObserved ==
    /\ [](\A c \in alive :
            (Running /\ Top.pc = "exit" /\ Top.op \in GetOps /\ Top.c = c) =>
                /\ (Top.ret.kind = "None") <=> (Top.key \notin ElementsOf(set[c]))
                /\ Top.ret.kind \in {"None", "Some"})
    /\ [][\A c \in Containers, k \in Keys :
            /\ (AsMutShiftRemoveOf(c, k) \/ AsMutSwapRemoveOf(c, k)) =>
                  /\ k \in ElementsOf(set[c])
                  /\ ElementsOf(set'[c]) = ElementsOf(set[c]) \ {k}
                  /\ Len(set'[c]) = Len(set[c]) - 1
            /\ AsMutShiftRemoveOf(c, k) =>
                  \A j \in 1..Len(set'[c]) :
                      set'[c][j] = IF j < IndicesOfKey(set[c], k) THEN set[c][j]
                                   ELSE set[c][j + 1]]_vars

\* A container that has held both keys holds one after a removal, and a
\* get_full for the other key returns absent.
C12_Witness ==
    /\ Running /\ Top.pc = "exit" /\ Top.op = "get_full"
    /\ Top.ret.kind = "None"
    /\ Top.key \notin ElementsOf(set[Top.c])
    /\ cap[Top.c] = 2 /\ Len(set[Top.c]) = 1

\* The elements of q without those equal to an earlier one, in q's order.
FirstOccurrences(q) ==
    LET P == {i \in 1..Len(q) : \A j \in 1..(i - 1) : q[j] # q[i]}
    IN  [n \in 1..Cardinality(P) |->
            q[CHOOSE i \in P : Cardinality({j \in P : j <= i}) = n]]

\* C14: new and default yield a container with no elements; From keeps the
\* ordered set it is given, element by element; from_iter keeps, for every
\* value of the sequence, its first occurrence, in the order of the first
\* occurrences; each of them yields a container whose flag is false.
C14_Construction ==
    [][LET d == Min(FreeSlots)
       IN  /\ (New \/ Default) =>
                /\ d \notin alive /\ d \in alive'
                /\ set'[d] = <<>> /\ ~in_use'[d]
           /\ FromSet =>
                /\ d \notin alive /\ d \in alive'
                /\ set'[d] = owned.set /\ ~in_use'[d]
           /\ \A q \in Inputs : FromIterOf(q) =>
                /\ d \notin alive /\ d \in alive'
                /\ KeysOf(set'[d]) = FirstOccurrences(q)
                /\ ElementsOf(set'[d]) = {q[i] : i \in 1..Len(q)}
                /\ ~in_use'[d]]_vars

\* Beside an untouched empty container stands one that holds 2 and then 1,
\* has lent nothing out and has its flag false: what from_iter of 2, 1, 2
\* builds.
C14_Witness ==
    /\ stack = <<>> /\ alive = {1, 2}
    /\ set[1] = <<>> /\ cap[1] = 0
    /\ KeysOf(set[2]) = <<2, 1>> /\ cap[2] = 2
    /\ loans[2] = <<>> /\ ~in_use[2] /\ ~owned.some

\* C19: as_mut and into_set are not guarded by the flag and do not write it:
\* whenever the caller has the container to itself (no call running) they
\* can be taken whatever the flag's value, as_mut leaves every flag as it
\* was, into_set hands out the container's set as it is, and From stores the
\* set it is given as it is, so From followed by into_set returns that set.
C19_ExclusiveUnguarded ==
    /\ [](\A c \in alive :
            (stack = <<>> /\ ~unwinding) =>
                /\ ~owned.some => ENABLED IntoSetOf(c)
                /\ \A k \in ElementsOf(set[c]) :
                      ENABLED AsMutShiftRemoveOf(c, k) /\ ENABLED AsMutSwapRemoveOf(c, k))
    /\ [][\A c \in Containers :
            /\ \A k \in Keys :
                  (AsMutShiftRemoveOf(c, k) \/ AsMutSwapRemoveOf(c, k)) =>
                      in_use' = in_use
            /\ IntoSetOf(c) =>
                  /\ in_use' = in_use
                  /\ owned'.some /\ owned'.set = set[c]
            /\ (FromSet /\ c = Min(FreeSlots)) =>
                  /\ set'[c] = owned.set
                  /\ in_use'[c] = FALSE /\ ~owned'.some]_vars

\* into_set has returned the non-empty set of a container whose flag was
\* set: the flag of the consumed container is still as the call found it.
C19_Witness ==
    /\ owned.some /\ owned.set # <<>>
    /\ \E c \in Containers \ alive : in_use[c]

\* C17: between threads the flag excludes nothing.  Whether a thread passes
\* the check depends on the flag alone, the check writes nothing, and a
\* thread that has passed it goes on to set the flag and enter the unsafe
\* block whatever the others do; so a second thread can pass the check after
\* the first has passed it and before the first has set the flag.
C17_NoCrossThreadProtection ==
    /\ [](\A t \in Threads :
            /\ (threads[t].pc = "enter" /\ ~in_use[threads[t].c]) =>
                   ENABLED ThreadCheckOf(t)
            /\ threads[t].pc = "checked" => ENABLED ThreadSetOf(t)
            /\ threads[t].pc = "body" =>
                   ENABLED (ThreadBodyOf(t) \/ ThreadBodyRaceOf(t)))
    /\ [][\A t \in Threads :
            /\ ThreadCheckOf(t) => in_use' = in_use
            /\ ThreadSetOf(t) => in_use'[threads[t].c]]_vars

\* Two threads are inside the unsafe block of the same container at the same
\* time, one of them inserting.
C17_Witness ==
    \E t, u \in Threads :
        /\ t # u
        /\ threads[t].pc = "body" /\ threads[u].pc = "body"
        /\ threads[t].c = threads[u].c
        /\ threads[t].op = "insert"
====
